---- MODULE Spec2Model ----
(***************************************************************************)
(* A model of sysmon-tui (src/src/main.rs): the tiered-cadence Collector,  *)
(* the SparklineHistory ring, the AppState engine (update_metrics,         *)
(* handle_input, snapshot, toggle_log, write_log, scan_faster/slower), the *)
(* EventHandler thread and the consumer loop of main.                      *)
(*                                                                         *)
(* Option<T> is a sequence of length 0 (None) or 1 (Some).                 *)
(* A host reading is a natural number r: the r-th time the collector looks *)
(* at the host.  Every value read from the host is an injective function   *)
(* of r, so two values of the model are equal only if they were copied     *)
(* from the same reading; every property below uses equality only to say   *)
(* where a value came from.                                                *)
(***************************************************************************)
EXTENDS Integers, Sequences, FiniteSets, TLC

VARIABLES
    collector,   \* Collector {tick, process_every, last_disk_io, last_processes, last_thermals}
    host,        \* number of readings the collector has taken of the host
    full_at,     \* the reading at which collect() last recomputed the expensive fields (0: never)
    metrics,     \* AppState.metrics
    sort_order,  \* AppState.sort_order
    history,     \* AppState.history : SparklineHistory
    snap_path,   \* AppState.snap_path : Option<String>
    snap_ttl,    \* AppState.snap_ttl
    log_writer,  \* AppState.log_writer : Option<BufWriter<File>>
    log_path,    \* AppState.log_path : Option<String>
    files,       \* the log directory: path -> rows on disk
    clock,       \* chrono::Local::now(), in whole seconds
    chan,        \* the mpsc channel of AppEvent
    producer,    \* the EventHandler thread: "running" or "dead"
    pc,          \* where main is: "draw", "recv", "teardown", "exited"
    exit_cause,  \* why main left its loop
    fuel,        \* how many more Ticks (calls, pushes) the run takes
    keys_left,   \* how many more terminal events the run takes
    last,        \* the operation that ran last, with what it saw
    pushed,      \* every sample handed to SparklineHistory::push, in order
    since_snap,  \* Ticks processed since the latest successful snapshot
    log_rows,    \* rows handed to the open log writer since it was opened
    prev_toggle, \* the latest toggle_log call: what it found and did
    toggle_pair, \* the latest two toggle_log calls, once there are two
    iter,        \* the latest iteration of the EventHandler loop: its outcome and what it sent
    terminal,    \* the terminal: raw mode on, alternate screen entered
    sent,        \* every event the EventHandler thread has sent, in order
    handled,     \* every event rx.recv() has returned to main, in order
    rendered     \* what the latest terminal.draw that succeeded put on screen

vars == <<collector, host, full_at, metrics, sort_order, history, snap_path, snap_ttl,
          log_writer, log_path, files, clock, chan, producer, pc, exit_cause,
          fuel, keys_left, last, pushed, since_snap, log_rows, prev_toggle, toggle_pair, iter,
          terminal, sent, handled, rendered>>

collectorVars == <<collector, host, full_at>>
appVars == <<metrics, sort_order, history, snap_path, snap_ttl, log_writer, log_path>>
envVars == <<files, clock>>
traceVars == <<terminal, sent, handled, rendered>>
loopVars == <<chan, producer, pc, exit_cause, traceVars>>
ghostVars == <<pushed, since_snap, log_rows, prev_toggle, toggle_pair, iter>>

(***************************************************************************)
(* Bounds of the model.                                                    *)
(***************************************************************************)
\* the u32 tick counter is modelled on TickBits bits
TickBits == 6
\* collect() calls of a collector-only run
MaxCalls == 70
\* capacities tried for SparklineHistory::new
MaxCapacity == 3
\* pushes of a history-only run
MaxPushes == 5
\* distinct samples a history-only run pushes
MaxSample == 2
\* Ticks of an engine-only run
MaxTicks == 13
\* key events of an engine-only run
MaxKeys == 2
\* Ticks of a run long enough to fill the history of AppState
LongTicks == 123
\* seconds the clock moves on in a run that watches the files
MaxClock == 1
\* Ticks of a run that watches the files
FileTicks == 1
\* key events of a run that watches the files
FileKeys == 3
\* Ticks the EventHandler thread sends in a run of the whole program
LoopTicks == 2
\* terminal events the EventHandler thread meets in a run of the whole program
LoopInputs == 2
\* events the channel holds at once
MaxChan == 2

None == <<>>
Some(x) == <<x>>

RECURSIVE Pow2(_)
Pow2(n) == IF n = 0 THEN 1 ELSE 2 * Pow2(n - 1)

TickModulus == Pow2(TickBits)

\* an increment that stops at the largest value instead of wrapping
saturating_add1(t) == IF t + 1 = TickModulus THEN t ELSE t + 1

\* u32::wrapping_add(1)
wrapping_add1(t) == (t + 1) % TickModulus

Min(a, b) == IF a < b THEN a ELSE b

(***************************************************************************)
(* The host as the r-th reading shows it.                                  *)
(***************************************************************************)
HostNetwork(r) == [received_bytes |-> 4 * r, transmitted_bytes |-> 4 * r + 1]

\* the processes in the order sysinfo enumerates them
HostProcesses(r) ==
    IF r % 2 = 1
    THEN << [pid |-> 10 * r + 1, cpu_percent |-> 1, mem_bytes |-> 7, rd |-> 2 * r + 500, wr |-> 2 * r + 501],
            [pid |-> 10 * r + 2, cpu_percent |-> 5, mem_bytes |-> 3, rd |-> 2 * r + 500, wr |-> 2 * r + 500] >>
    ELSE << [pid |-> 10 * r + 1, cpu_percent |-> 2, mem_bytes |-> 4, rd |-> 4 * r + 1002, wr |-> 4 * r + 1003] >>

HostThermals(r) == << [label |-> "zone", temp_celsius |-> r] >>

ProcessInfo(p) == [pid |-> p.pid, cpu_percent |-> p.cpu_percent, mem_bytes |-> p.mem_bytes]

RECURSIVE SumRead(_)
SumRead(ps) == IF ps = <<>> THEN 0 ELSE Head(ps).rd + SumRead(Tail(ps))

RECURSIVE SumWrite(_)
SumWrite(ps) == IF ps = <<>> THEN 0 ELSE Head(ps).wr + SumWrite(Tail(ps))

\* insert p into a list sorted by cpu_percent descending, after its equals
RECURSIVE InsertByCpu(_, _)
InsertByCpu(p, ps) ==
    IF ps = <<>> THEN <<p>>
    ELSE IF Head(ps).cpu_percent >= p.cpu_percent
         THEN <<Head(ps)>> \o InsertByCpu(p, Tail(ps))
         ELSE <<p>> \o ps

\* processes.sort_by(|a, b| b.cpu_percent.partial_cmp(&a.cpu_percent)): stable
RECURSIVE SortByCpuDesc(_)
SortByCpuDesc(ps) ==
    IF ps = <<>> THEN <<>>
    ELSE InsertByCpu(ps[Len(ps)], SortByCpuDesc(SubSeq(ps, 1, Len(ps) - 1)))

MapProcessInfo(ps) == [i \in 1..Len(ps) |-> ProcessInfo(ps[i])]

(***************************************************************************)
(* SparklineHistory                                                        *)
(***************************************************************************)
SparklineHistoryNew(capacity) ==
    [net_rx |-> <<>>, net_tx |-> <<>>, disk_read |-> <<>>, disk_write |-> <<>>,
     capacity |-> capacity]

\* VecDeque::pop_front then drop the result: nothing happens on an empty deque
pop_front(s) == IF s = <<>> THEN s ELSE Tail(s)

\* a capacity test that lets the deques grow one past the capacity
AtCapacity_strict(h) == Len(h.net_rx) > h.capacity

\* the capacity test of push
AtCapacity(h) == Len(h.net_rx) >= h.capacity

push(h, net, disk) ==
    LET e == AtCapacity(h)
        rx == IF e THEN pop_front(h.net_rx) ELSE h.net_rx
        tx == IF e THEN pop_front(h.net_tx) ELSE h.net_tx
        rd == IF e THEN pop_front(h.disk_read) ELSE h.disk_read
        wr == IF e THEN pop_front(h.disk_write) ELSE h.disk_write
    IN  [h EXCEPT !.net_rx = Append(rx, net.received_bytes),
                  !.net_tx = Append(tx, net.transmitted_bytes),
                  !.disk_read = Append(rd, disk.read_bytes),
                  !.disk_write = Append(wr, disk.write_bytes)]

(***************************************************************************)
(* Collector                                                               *)
(***************************************************************************)
\* a preset list with 16 between 8 and 20
SCAN_PRESETS_with_16 == <<1, 2, 4, 8, 16, 20>>

SCAN_PRESETS == <<1, 2, 4, 8, 20>>

PresetSet == {SCAN_PRESETS[i] : i \in 1..Len(SCAN_PRESETS)}

\* the tick counter Collector::new starts from
NewTick == 0

CollectorNew ==
    [tick |-> NewTick,
     process_every |-> 4,
     last_disk_io |-> [read_bytes |-> 0, write_bytes |-> 0],
     last_processes |-> <<>>,
     last_thermals |-> <<>>]

\* the host-wide disk I/O: the sum of the processes' counters
DiskIo(procs) == [read_bytes |-> SumRead(procs), write_bytes |-> SumWrite(procs)]

\* a gate that tests the counter after its increment
IsFull_after_increment(c) == (c.tick + 1) % c.process_every = 0

\* let full = self.tick % self.process_every == 0
IsFull(c) == c.tick % c.process_every = 0

\* a collect() that returns the thermals of a full refresh without caching them
collect_thermals_not_cached(c, r) ==
    LET full == c.tick % c.process_every = 0
        procs == HostProcesses(r)
        disk_io == IF full THEN DiskIo(procs) ELSE c.last_disk_io
        thermals == IF full THEN HostThermals(r) ELSE c.last_thermals
        processes == IF full THEN SortByCpuDesc(MapProcessInfo(procs)) ELSE c.last_processes
    IN  [collector |-> [c EXCEPT !.tick = wrapping_add1(c.tick),
                                 !.last_disk_io = disk_io,
                                 !.last_processes = processes],
         metrics |-> [cpu |-> r, ram |-> r, swap |-> r,
                      network |-> HostNetwork(r),
                      disk_io |-> disk_io,
                      processes |-> processes,
                      thermals |-> thermals],
         full |-> full]

\* collect() on collector c when the host shows reading r:
\* the collector afterwards, the SystemMetrics returned, and the gate
collect(c, r) ==
    LET full == IsFull(c)
        procs == HostProcesses(r)
        disk_io == IF full THEN DiskIo(procs) ELSE c.last_disk_io
        thermals == IF full THEN HostThermals(r) ELSE c.last_thermals
        processes == IF full THEN SortByCpuDesc(MapProcessInfo(procs)) ELSE c.last_processes
    IN  [collector |-> [c EXCEPT !.tick = wrapping_add1(c.tick),
                                 !.last_disk_io = disk_io,
                                 !.last_thermals = thermals,
                                 !.last_processes = processes],
         metrics |-> [cpu |-> r, ram |-> r, swap |-> r,
                      network |-> HostNetwork(r),
                      disk_io |-> disk_io,
                      processes |-> processes,
                      thermals |-> thermals],
         full |-> full]

(***************************************************************************)
(* AppState                                                                *)
(***************************************************************************)
\* SparklineHistory::new(120) in AppState::new
HISTORY_CAPACITY == 120

\* self.snap_ttl = 12 in snapshot
SNAP_TTL == 12

Cpu == "Cpu"
Mem == "Mem"

KeyCodes == {"c", "C", "m", "M", "l", "L", "[", "]", "q", "x"}

Key(code, alt) == [code |-> code, alt |-> alt]

\* the KeyEvents a run draws from: a code, and whether the modifiers contain
\* ALT (tried on the codes 'l' and 'L', the only ones whose arm reads it)
Keys == {Key(c, FALSE) : c \in KeyCodes} \cup {Key("l", TRUE), Key("L", TRUE)}

NoKey == [code |-> "", alt |-> FALSE]

EmptyMetrics ==
    [cpu |-> 0, ram |-> 0, swap |-> 0,
     network |-> [received_bytes |-> 0, transmitted_bytes |-> 0],
     disk_io |-> [read_bytes |-> 0, write_bytes |-> 0],
     processes |-> <<>>,
     thermals |-> <<>>]

\* "timestamp,pid,name,cpu_percent,mem_bytes"
HeaderRow == [ts |-> -1, pid |-> -1, cpu_percent |-> -1, mem_bytes |-> -1]

\* one CSV row of process p written at time now
Row(now, p) == [ts |-> now, pid |-> p.pid, cpu_percent |-> p.cpu_percent, mem_bytes |-> p.mem_bytes]

Rows(now, ps) == [i \in 1..Len(ps) |-> Row(now, ps[i])]

\* format!("{}/snap-{}.csv", log_dir, now) and format!("{}/sysmon-{}.csv", log_dir, now)
SnapPath(now) == [prefix |-> "snap", sec |-> now]
LogPath(now) == [prefix |-> "sysmon", sec |-> now]

\* File::create(path) succeeded: the file exists and is empty
Created(fs, path) == [q \in DOMAIN fs \cup {path} |-> IF q = path THEN <<>> ELSE fs[q]]

\* rows reach the file the writer was opened on
Written(fs, path, rows) == [fs EXCEPT ![path] = fs[path] \o rows]

\* a countdown that decrements without testing for zero
fade_unguarded(ttl, path) ==
    [ttl |-> ttl - 1, path |-> IF ttl - 1 = 0 THEN None ELSE path]

\* a countdown that tests for zero before it decrements
fade_tests_before_decrement(ttl, path) ==
    IF ttl > 0
    THEN [ttl |-> ttl - 1, path |-> path]
    ELSE [ttl |-> ttl, path |-> None]

\* the countdown of update_metrics: the new (snap_ttl, snap_path)
fade(ttl, path) ==
    IF ttl > 0
    THEN [ttl |-> ttl - 1, path |-> IF ttl - 1 = 0 THEN None ELSE path]
    ELSE [ttl |-> ttl, path |-> path]

\* write_log on the metrics just collected; flush_ok: whether writer.flush() succeeds
write_log(m, flush_ok) ==
    IF log_writer # None
    THEN LET w == log_writer[1]
             buf == w.buf \o Rows(clock, m.processes)
         IN  /\ log_writer' = Some([w EXCEPT !.buf = IF flush_ok THEN <<>> ELSE buf])
             /\ files' = IF flush_ok THEN Written(files, w.path, buf) ELSE files
             /\ log_rows' = log_rows \o Rows(clock, m.processes)
    ELSE UNCHANGED <<log_writer, files, log_rows>>

\* an update_metrics that writes the log before it collects
update_metrics_log_before_collect(flush_ok) ==
    LET res == collect(collector, host + 1)
        f == fade(snap_ttl, snap_path)
    IN  /\ collector' = res.collector
        /\ host' = host + 1
        /\ full_at' = IF res.full THEN host + 1 ELSE full_at
        /\ metrics' = res.metrics
        /\ history' = push(history, res.metrics.network, res.metrics.disk_io)
        /\ pushed' = Append(pushed, [net |-> res.metrics.network, disk |-> res.metrics.disk_io])
        /\ write_log(metrics, flush_ok)
        /\ snap_ttl' = f.ttl
        /\ snap_path' = f.path
        /\ since_snap' = IF since_snap >= 0 THEN since_snap + 1 ELSE since_snap
        /\ UNCHANGED <<sort_order, log_path, clock, prev_toggle, toggle_pair, iter>>

update_metrics(flush_ok) ==
    LET res == collect(collector, host + 1)
        f == fade(snap_ttl, snap_path)
    IN  /\ collector' = res.collector
        /\ host' = host + 1
        /\ full_at' = IF res.full THEN host + 1 ELSE full_at
        /\ metrics' = res.metrics
        /\ history' = push(history, res.metrics.network, res.metrics.disk_io)
        /\ pushed' = Append(pushed, [net |-> res.metrics.network, disk |-> res.metrics.disk_io])
        /\ write_log(res.metrics, flush_ok)
        /\ snap_ttl' = f.ttl
        /\ snap_path' = f.path
        /\ since_snap' = IF since_snap >= 0 THEN since_snap + 1 ELSE since_snap
        /\ UNCHANGED <<sort_order, log_path, clock, prev_toggle, toggle_pair, iter>>

\* a snapshot that records the path before it knows the file exists
snapshot_path_before_create(create_ok, flush_ok) ==
    LET path == SnapPath(clock)
        rows == <<HeaderRow>> \o Rows(clock, metrics.processes)
    IN  /\ files' = IF create_ok
                    THEN IF flush_ok THEN Written(Created(files, path), path, rows)
                                     ELSE Created(files, path)
                    ELSE files
        /\ snap_path' = Some(path)
        /\ snap_ttl' = SNAP_TTL
        /\ since_snap' = 0

\* a snapshot that lets a countdown already running go on
snapshot_keeps_countdown(create_ok, flush_ok) ==
    LET path == SnapPath(clock)
        rows == <<HeaderRow>> \o Rows(clock, metrics.processes)
    IN  IF create_ok
        THEN /\ files' = IF flush_ok THEN Written(Created(files, path), path, rows)
                                     ELSE Created(files, path)
             /\ snap_path' = Some(path)
             /\ snap_ttl' = IF snap_ttl > 0 THEN snap_ttl ELSE SNAP_TTL
             /\ since_snap' = 0
        ELSE UNCHANGED <<files, snap_path, snap_ttl, since_snap>>

\* snapshot; create_ok: File::create succeeds; flush_ok: the rows reach the disk
snapshot(create_ok, flush_ok) ==
    LET path == SnapPath(clock)
        rows == <<HeaderRow>> \o Rows(clock, metrics.processes)
    IN  IF create_ok
        THEN /\ files' = IF flush_ok THEN Written(Created(files, path), path, rows)
                                     ELSE Created(files, path)
             /\ snap_path' = Some(path)
             /\ snap_ttl' = SNAP_TTL
             /\ since_snap' = 0
        ELSE UNCHANGED <<files, snap_path, snap_ttl, since_snap>>

\* what a toggle_log call met and did: whether logging was active before
\* it and after it, the file it closed or opened, the rows handed to the
\* writer it closed, and whether the flush of that writer succeeded
Toggled(create_ok, flush_ok) ==
    [was_active |-> log_writer # None,
     active_after |-> log_writer = None /\ create_ok,
     path |-> IF log_writer # None THEN log_path
              ELSE IF create_ok THEN Some(LogPath(clock)) ELSE None,
     rows |-> log_rows,
     flushed |-> flush_ok]

\* a toggle_log that records the path before it knows the file exists
toggle_log_path_before_create(create_ok, flush_ok) ==
    /\ prev_toggle' = Some(Toggled(create_ok, flush_ok))
    /\ toggle_pair' = IF prev_toggle = None THEN None
                      ELSE Some([first |-> prev_toggle[1],
                                 second |-> Toggled(create_ok, flush_ok)])
    /\ IF log_writer # None
       THEN LET w == log_writer[1]
            IN  /\ files' = IF flush_ok THEN Written(files, w.path, w.buf) ELSE files
                /\ log_writer' = None
                /\ log_path' = None
                /\ log_rows' = <<>>
       ELSE LET path == LogPath(clock)
            IN  /\ log_path' = Some(path)
                /\ IF create_ok
                   THEN /\ files' = Created(files, path)
                        /\ log_writer' = Some([path |-> path, buf |-> <<HeaderRow>>])
                        /\ log_rows' = <<>>
                   ELSE UNCHANGED <<files, log_writer, log_rows>>

\* a toggle_log that closes the file without flushing the writer's buffer
toggle_log_close_without_flush(create_ok, flush_ok) ==
    /\ prev_toggle' = Some(Toggled(create_ok, flush_ok))
    /\ toggle_pair' = IF prev_toggle = None THEN None
                      ELSE Some([first |-> prev_toggle[1],
                                 second |-> Toggled(create_ok, flush_ok)])
    /\ IF log_writer # None
       THEN /\ files' = files
            /\ log_writer' = None
            /\ log_path' = None
            /\ log_rows' = <<>>
       ELSE LET path == LogPath(clock)
            IN  IF create_ok
                THEN /\ files' = Created(files, path)
                     /\ log_writer' = Some([path |-> path, buf |-> <<HeaderRow>>])
                     /\ log_path' = Some(path)
                     /\ log_rows' = <<>>
                ELSE UNCHANGED <<files, log_writer, log_path, log_rows>>

\* toggle_log; create_ok: File::create succeeds; flush_ok: the flush of the
\* BufWriter being dropped succeeds
toggle_log(create_ok, flush_ok) ==
    /\ prev_toggle' = Some(Toggled(create_ok, flush_ok))
    /\ toggle_pair' = IF prev_toggle = None THEN None
                      ELSE Some([first |-> prev_toggle[1],
                                 second |-> Toggled(create_ok, flush_ok)])
    /\ IF log_writer # None
       THEN LET w == log_writer[1]
            IN  /\ files' = IF flush_ok THEN Written(files, w.path, w.buf) ELSE files
                /\ log_writer' = None
                /\ log_path' = None
                /\ log_rows' = <<>>
       ELSE LET path == LogPath(clock)
            IN  IF create_ok
                THEN /\ files' = Created(files, path)
                     /\ log_writer' = Some([path |-> path, buf |-> <<HeaderRow>>])
                     /\ log_path' = Some(path)
                     /\ log_rows' = <<>>
                ELSE UNCHANGED <<files, log_writer, log_path, log_rows>>

\* the preset scan_faster picks from cur: the first smaller one, looking from the largest
RECURSIVE FirstBelow(_, _)
FirstBelow(cur, i) ==
    IF i = 0 THEN cur
    ELSE IF SCAN_PRESETS[i] < cur THEN SCAN_PRESETS[i] ELSE FirstBelow(cur, i - 1)

\* the preset scan_slower picks from cur: the first larger one, looking from the smallest
RECURSIVE FirstAbove(_, _)
FirstAbove(cur, i) ==
    IF i > Len(SCAN_PRESETS) THEN cur
    ELSE IF SCAN_PRESETS[i] > cur THEN SCAN_PRESETS[i] ELSE FirstAbove(cur, i + 1)

PresetsUnder(cur) == {p \in PresetSet : p < cur}
PresetsOver(cur) == {p \in PresetSet : p > cur}

\* a scan_faster that looks from the smallest preset (the .rev() left out)
scan_faster_without_rev(cur) ==
    IF PresetsUnder(cur) = {} THEN cur
    ELSE CHOOSE p \in PresetsUnder(cur) : \A q \in PresetsUnder(cur) : p <= q

scan_faster(cur) == FirstBelow(cur, Len(SCAN_PRESETS))

\* a scan_slower that doubles the interval
scan_slower_doubling(cur) == IF cur < 20 THEN 2 * cur ELSE cur

\* a scan_slower that looks from the largest preset (a .rev() too many)
scan_slower_with_rev(cur) ==
    IF PresetsOver(cur) = {} THEN cur
    ELSE CHOOSE p \in PresetsOver(cur) : \A q \in PresetsOver(cur) : q <= p

scan_slower(cur) == FirstAbove(cur, 1)

\* a match whose sort-by-memory arm names the lower-case letter only
Arm_upper_m_left_out(key) ==
    IF key.code \in {"c", "C"} THEN "sort_cpu"
    ELSE IF key.code = "m" THEN "sort_mem"
    ELSE IF key.code = "l" /\ key.alt THEN "toggle_log"
    ELSE IF key.code \in {"l", "L"} THEN "snapshot"
    ELSE IF key.code = "[" THEN "scan_faster"
    ELSE IF key.code = "]" THEN "scan_slower"
    ELSE "ignore"

\* a match whose bracket arms are the other way round
Arm_brackets_swapped(key) ==
    IF key.code \in {"c", "C"} THEN "sort_cpu"
    ELSE IF key.code \in {"m", "M"} THEN "sort_mem"
    ELSE IF key.code = "l" /\ key.alt THEN "toggle_log"
    ELSE IF key.code \in {"l", "L"} THEN "snapshot"
    ELSE IF key.code = "[" THEN "scan_slower"
    ELSE IF key.code = "]" THEN "scan_faster"
    ELSE "ignore"

\* which arm of the match in handle_input takes the key
Arm(key) ==
    IF key.code \in {"c", "C"} THEN "sort_cpu"
    ELSE IF key.code \in {"m", "M"} THEN "sort_mem"
    ELSE IF key.code = "l" /\ key.alt THEN "toggle_log"
    ELSE IF key.code \in {"l", "L"} THEN "snapshot"
    ELSE IF key.code = "[" THEN "scan_faster"
    ELSE IF key.code = "]" THEN "scan_slower"
    ELSE "ignore"

\* insert p into a list sorted by mem_bytes descending, after its equals
RECURSIVE InsertByMem(_, _)
InsertByMem(p, ps) ==
    IF ps = <<>> THEN <<p>>
    ELSE IF Head(ps).mem_bytes >= p.mem_bytes
         THEN <<Head(ps)>> \o InsertByMem(p, Tail(ps))
         ELSE <<p>> \o ps

RECURSIVE SortByMemDesc(_)
SortByMemDesc(ps) ==
    IF ps = <<>> THEN <<>>
    ELSE InsertByMem(ps[Len(ps)], SortByMemDesc(SubSeq(ps, 1, Len(ps) - 1)))

\* a handle_input whose sort arms re-sort the process list of the current
\* snapshot in place
handle_input_sorts_snapshot(key, create_ok, flush_ok) ==
    LET arm == Arm(key)
    IN  /\ sort_order' = IF arm = "sort_cpu" THEN Cpu
                         ELSE IF arm = "sort_mem" THEN Mem ELSE sort_order
        /\ metrics' = IF arm = "sort_cpu"
                      THEN [metrics EXCEPT !.processes = SortByCpuDesc(@)]
                      ELSE IF arm = "sort_mem"
                      THEN [metrics EXCEPT !.processes = SortByMemDesc(@)]
                      ELSE metrics
        /\ collector' = IF arm = "scan_faster"
                        THEN [collector EXCEPT !.process_every = scan_faster(@)]
                        ELSE IF arm = "scan_slower"
                        THEN [collector EXCEPT !.process_every = scan_slower(@)]
                        ELSE collector
        /\ IF arm = "toggle_log"
           THEN toggle_log(create_ok, flush_ok) /\ UNCHANGED <<snap_path, snap_ttl, since_snap>>
           ELSE IF arm = "snapshot"
           THEN snapshot(create_ok, flush_ok)
                /\ UNCHANGED <<log_writer, log_path, log_rows, prev_toggle, toggle_pair>>
           ELSE UNCHANGED <<files, snap_path, snap_ttl, since_snap,
                            log_writer, log_path, log_rows, prev_toggle, toggle_pair>>
        /\ UNCHANGED <<host, full_at, history, pushed, clock, iter>>

\* a handle_input whose scan-rate arms also restart the tick counter
handle_input_restarts_counter(key, create_ok, flush_ok) ==
    LET arm == Arm(key)
    IN  /\ sort_order' = IF arm = "sort_cpu" THEN Cpu
                         ELSE IF arm = "sort_mem" THEN Mem ELSE sort_order
        /\ collector' = IF arm = "scan_faster"
                        THEN [collector EXCEPT !.process_every = scan_faster(@), !.tick = 0]
                        ELSE IF arm = "scan_slower"
                        THEN [collector EXCEPT !.process_every = scan_slower(@), !.tick = 0]
                        ELSE collector
        /\ IF arm = "toggle_log"
           THEN toggle_log(create_ok, flush_ok) /\ UNCHANGED <<snap_path, snap_ttl, since_snap>>
           ELSE IF arm = "snapshot"
           THEN snapshot(create_ok, flush_ok)
                /\ UNCHANGED <<log_writer, log_path, log_rows, prev_toggle, toggle_pair>>
           ELSE UNCHANGED <<files, snap_path, snap_ttl, since_snap,
                            log_writer, log_path, log_rows, prev_toggle, toggle_pair>>
        /\ UNCHANGED <<host, full_at, metrics, history, pushed, clock, iter>>

handle_input(key, create_ok, flush_ok) ==
    LET arm == Arm(key)
    IN  /\ sort_order' = IF arm = "sort_cpu" THEN Cpu
                         ELSE IF arm = "sort_mem" THEN Mem ELSE sort_order
        /\ collector' = IF arm = "scan_faster"
                        THEN [collector EXCEPT !.process_every = scan_faster(@)]
                        ELSE IF arm = "scan_slower"
                        THEN [collector EXCEPT !.process_every = scan_slower(@)]
                        ELSE collector
        /\ IF arm = "toggle_log"
           THEN toggle_log(create_ok, flush_ok) /\ UNCHANGED <<snap_path, snap_ttl, since_snap>>
           ELSE IF arm = "snapshot"
           THEN snapshot(create_ok, flush_ok)
                /\ UNCHANGED <<log_writer, log_path, log_rows, prev_toggle, toggle_pair>>
           ELSE UNCHANGED <<files, snap_path, snap_ttl, since_snap,
                            log_writer, log_path, log_rows, prev_toggle, toggle_pair>>
        /\ UNCHANGED <<host, full_at, metrics, history, pushed, clock, iter>>

(***************************************************************************)
(* What ran last: the operation, its inputs, the process_every and the     *)
(* snap_ttl it met, and the process_every the operation before it met if   *)
(* that was scan_faster.                                                   *)
(***************************************************************************)
Ran(op, key, create_ok, flush_ok) ==
    [op |-> op, key |-> key, create_ok |-> create_ok, flush_ok |-> flush_ok,
     pe0 |-> collector.process_every,
     ttl0 |-> snap_ttl,
     faster_from |-> IF last.op = "key" /\ Arm(last.key) = "scan_faster" THEN last.pe0 ELSE 0]

NothingRan ==
    [op |-> "none", key |-> NoKey, create_ok |-> TRUE, flush_ok |-> TRUE,
     pe0 |-> 0, ttl0 |-> 0, faster_from |-> 0]

\* the outcomes an I/O call can have here: it can fail only if it is made
Outcomes(made) == IF made THEN BOOLEAN ELSE {TRUE}

\* handle_input(key) calls File::create
Creates(key) ==
    \/ Arm(key) = "snapshot"
    \/ Arm(key) = "toggle_log" /\ log_writer = None

\* handle_input(key) flushes a BufWriter (when its File::create, if any, succeeded)
Flushes(key) ==
    \/ Arm(key) = "snapshot"
    \/ Arm(key) = "toggle_log" /\ log_writer # None

(***************************************************************************)
(* Initial states                                                          *)
(***************************************************************************)
\* AppState::new
AppStateNew ==
    /\ collector = CollectorNew
    /\ host = 0
    /\ full_at = 0
    /\ metrics = EmptyMetrics
    /\ sort_order = Cpu
    /\ history = SparklineHistoryNew(HISTORY_CAPACITY)
    /\ snap_path = None
    /\ snap_ttl = 0
    /\ log_writer = None
    /\ log_path = None

\* the log directory holds nothing of this run yet
EnvInit ==
    /\ files = <<>>
    /\ clock = 0

\* enable_raw_mode and EnterAlternateScreen have succeeded
TerminalSetUp == [raw_mode |-> TRUE, alternate_screen |-> TRUE]

\* main before its loop: the terminal is set up, the channel is empty and
\* the thread is spawned
LoopInit ==
    /\ chan = <<>>
    /\ producer = "running"
    /\ pc = "draw"
    /\ exit_cause = "none"
    /\ terminal = TerminalSetUp
    /\ sent = <<>>
    /\ handled = <<>>
    /\ rendered = None

GhostInit ==
    /\ last = NothingRan
    /\ pushed = <<>>
    /\ since_snap = -1
    /\ log_rows = <<>>
    /\ prev_toggle = None
    /\ toggle_pair = None
    /\ iter = [outcome |-> "none", key |-> NoKey, sent |-> <<>>]

(***************************************************************************)
(* The engine alone: update_metrics and handle_input called in any order.  *)
(***************************************************************************)
EngineTick ==
    /\ fuel > 0
    /\ fuel' = fuel - 1
    /\ \E flush_ok \in Outcomes(log_writer # None) :
          /\ update_metrics(flush_ok)
          /\ last' = Ran("tick", NoKey, TRUE, flush_ok)
    /\ UNCHANGED <<keys_left, loopVars>>

EngineKey ==
    /\ keys_left > 0
    /\ keys_left' = keys_left - 1
    /\ \E key \in {k \in Keys : k.code # "q"} :
       \E create_ok \in Outcomes(Creates(key)) :
       \E flush_ok \in Outcomes(Flushes(key) /\ create_ok) :
          /\ handle_input(key, create_ok, flush_ok)
          /\ last' = Ran("key", key, create_ok, flush_ok)
    /\ UNCHANGED <<fuel, loopVars>>

EngineInit ==
    /\ AppStateNew /\ EnvInit /\ LoopInit /\ GhostInit
    /\ fuel = MaxTicks
    /\ keys_left = MaxKeys

EngineNext == EngineTick \/ EngineKey

SpecEngine == EngineInit /\ [][EngineNext]_vars

(***************************************************************************)
(* SparklineHistory alone: new(C) for any C, then pushes.                  *)
(***************************************************************************)
HistoryPush ==
    /\ fuel > 0
    /\ fuel' = fuel - 1
    /\ \E r \in 1..MaxSample :
          LET net == HostNetwork(r)
              disk == DiskIo(HostProcesses(r))
          IN  /\ history' = push(history, net, disk)
              /\ pushed' = Append(pushed, [net |-> net, disk |-> disk])
    /\ last' = Ran("push", NoKey, TRUE, TRUE)
    /\ UNCHANGED <<collectorVars, metrics, sort_order, snap_path, snap_ttl, log_writer,
                   log_path, envVars, loopVars, keys_left, since_snap, log_rows,
                   prev_toggle, toggle_pair, iter>>

HistoryInit ==
    /\ \E capacity \in 0..MaxCapacity :
          /\ history = SparklineHistoryNew(capacity)
    /\ collector = CollectorNew /\ host = 0 /\ full_at = 0 /\ metrics = EmptyMetrics /\ sort_order = Cpu
    /\ snap_path = None /\ snap_ttl = 0 /\ log_writer = None /\ log_path = None
    /\ EnvInit /\ LoopInit /\ GhostInit
    /\ fuel = MaxPushes
    /\ keys_left = 0

HistoryNext == HistoryPush

SpecHistory == HistoryInit /\ [][HistoryNext]_vars

(***************************************************************************)
(* The Collector alone.                                                    *)
(***************************************************************************)
CollectCall ==
    /\ fuel > 0
    /\ fuel' = fuel - 1
    /\ LET res == collect(collector, host + 1)
       IN  /\ collector' = res.collector
           /\ host' = host + 1
           /\ full_at' = IF res.full THEN host + 1 ELSE full_at
           /\ metrics' = res.metrics
    /\ last' = Ran("collect", NoKey, TRUE, TRUE)
    /\ UNCHANGED <<sort_order, history, snap_path, snap_ttl, log_writer, log_path,
                   envVars, loopVars, keys_left, ghostVars>>

\* the scan-rate keys, pressed between collect() calls
RateKey ==
    /\ \E key \in {Key("[", FALSE), Key("]", FALSE)} :
          /\ handle_input(key, TRUE, TRUE)
          /\ last' = Ran("key", key, TRUE, TRUE)
    /\ UNCHANGED <<fuel, keys_left, loopVars>>

\* process_every is a pub field: a caller fixes it at any preset
FixedRateInit ==
    /\ \E k \in PresetSet : collector = [CollectorNew EXCEPT !.process_every = k]
    /\ host = 0 /\ full_at = 0 /\ metrics = EmptyMetrics /\ sort_order = Cpu
    /\ history = SparklineHistoryNew(HISTORY_CAPACITY)
    /\ snap_path = None /\ snap_ttl = 0 /\ log_writer = None /\ log_path = None
    /\ EnvInit /\ LoopInit /\ GhostInit
    /\ fuel = MaxCalls
    /\ keys_left = 0

FixedRateNext == CollectCall

SpecFixedRate == FixedRateInit /\ [][FixedRateNext]_vars

CollectorInit ==
    /\ AppStateNew /\ EnvInit /\ LoopInit /\ GhostInit
    /\ fuel = MaxCalls
    /\ keys_left = 0

CollectorNext == CollectCall \/ RateKey

SpecCollector == CollectorInit /\ [][CollectorNext]_vars

(***************************************************************************)
(* The engine over a long run of Ticks, at any scan rate the keys pressed   *)
(* before the first Tick have chosen.                                      *)
(***************************************************************************)
LongRunInit ==
    /\ \E k \in PresetSet : collector = [CollectorNew EXCEPT !.process_every = k]
    /\ host = 0 /\ full_at = 0 /\ metrics = EmptyMetrics /\ sort_order = Cpu
    /\ history = SparklineHistoryNew(HISTORY_CAPACITY)
    /\ snap_path = None /\ snap_ttl = 0 /\ log_writer = None /\ log_path = None
    /\ EnvInit /\ LoopInit /\ GhostInit
    /\ fuel = LongTicks
    /\ keys_left = 0

LongRunNext == EngineTick

SpecLongRun == LongRunInit /\ [][LongRunNext]_vars

(***************************************************************************)
(* The whole program: the EventHandler thread, the channel, the loop of    *)
(* main.                                                                   *)
(***************************************************************************)
TickEvent == [kind |-> "Tick", key |-> NoKey]
InputEvent(key) == [kind |-> "Input", key |-> key]

\* what event::poll(tick_rate) can return
PollResults == {"ready", "timeout", "err"}

\* what event::read() can return: a key event, another terminal event
\* (resize, mouse, focus, paste), or an error
NotKey == [kind |-> "other", key |-> NoKey]
ReadErr == [kind |-> "err", key |-> NoKey]
KeyRead(key) == [kind |-> "key", key |-> key]

\* the keys the terminal delivers in a run of the whole program
TerminalKeys == {Key("q", FALSE), Key("m", FALSE), Key("l", FALSE), Key("l", TRUE), Key("]", FALSE)}

\* how an iteration went: what poll returned, and what read returned if it was called
Outcome(poll, read) ==
    IF poll = "timeout" THEN "timeout"
    ELSE IF poll = "err" THEN "poll_err"
    ELSE IF read.kind = "key" THEN "key"
    ELSE IF read.kind = "other" THEN "not_key"
    ELSE "read_err"

\* event::poll(tick_rate).unwrap_or(false)
poll_unwrap_or_false(poll) == poll = "ready"

\* an iteration that sends a Tick whenever it has no key to send
run_iteration_tick_unless_key(poll, read) ==
    IF poll_unwrap_or_false(poll) /\ read.kind = "key"
    THEN <<InputEvent(read.key)>>
    ELSE <<TickEvent>>

\* one iteration of the loop of EventHandler::run: the events it sends
run_iteration(poll, read) ==
    IF poll_unwrap_or_false(poll)
    THEN IF read.kind = "key" THEN <<InputEvent(read.key)>> ELSE <<>>
    ELSE <<TickEvent>>

EventHandlerIter ==
    /\ producer = "running"
    /\ pc # "exited"
    /\ \E poll \in PollResults :
       \E read \in (IF poll = "ready"
                    THEN {KeyRead(k) : k \in TerminalKeys} \cup {NotKey, ReadErr}
                    ELSE {NotKey}) :
          LET out == run_iteration(poll, read)
          IN  /\ Len(chan) + Len(out) <= MaxChan
              /\ IF poll = "ready"
                 THEN keys_left > 0 /\ keys_left' = keys_left - 1 /\ fuel' = fuel
                 ELSE fuel > 0 /\ fuel' = fuel - 1 /\ keys_left' = keys_left
              /\ chan' = chan \o out
              /\ sent' = sent \o out
              /\ iter' = [outcome |-> Outcome(poll, read), key |-> read.key, sent |-> out]
    /\ UNCHANGED <<collectorVars, appVars, envVars, producer, pc, exit_cause, last,
                   pushed, since_snap, log_rows, prev_toggle, toggle_pair,
                   terminal, handled, rendered>>

\* the thread unwinds (a panic inside poll or read): its Sender is dropped
EventHandlerPanic ==
    /\ producer = "running"
    /\ pc # "exited"
    /\ producer' = "dead"
    /\ UNCHANGED <<collectorVars, appVars, envVars, chan, pc, exit_cause, fuel, keys_left,
                   last, ghostVars, traceVars>>

\* app goes out of scope: the BufWriter of an open log is flushed and dropped
DropApp(flush_ok) ==
    /\ files' = IF log_writer # None /\ flush_ok
                THEN Written(files, log_writer[1].path, log_writer[1].buf)
                ELSE files
    /\ log_writer' = None

\* what app.render hands to the widgets
render ==
    [cpu |-> metrics.cpu,
     ram |-> metrics.ram,
     thermals |-> metrics.thermals,
     net_rx |-> history.net_rx,
     net_tx |-> history.net_tx,
     disk_read |-> history.disk_read,
     disk_write |-> history.disk_write,
     processes |-> metrics.processes,
     sort_order |-> sort_order,
     process_every |-> collector.process_every,
     snap_path |-> snap_path,
     log_path |-> log_path]

\* terminal.draw(|f| app.render(f))?
MainDraw ==
    /\ pc = "draw"
    /\ \E draw_ok \in BOOLEAN :
          IF draw_ok
          THEN /\ pc' = "recv"
               /\ rendered' = Some(render)
               /\ UNCHANGED <<exit_cause, files, log_writer>>
          ELSE /\ pc' = "exited"
               /\ exit_cause' = "draw_error"
               /\ rendered' = rendered
               /\ \E flush_ok \in Outcomes(log_writer # None) : DropApp(flush_ok)
    /\ last' = Ran("draw", NoKey, TRUE, TRUE)
    /\ UNCHANGED <<collectorVars, metrics, sort_order, history, snap_path, snap_ttl, log_path,
                   clock, chan, producer, fuel, keys_left, ghostVars, terminal, sent, handled>>

\* a recv that returns the newest message of the channel
recv_newest(ch) == [event |-> ch[Len(ch)], rest |-> SubSeq(ch, 1, Len(ch) - 1)]

\* rx.recv() on a channel that holds a message: the message returned, and
\* the channel afterwards
recv(ch) == [event |-> Head(ch), rest |-> Tail(ch)]

\* a loop that waits for the next event without drawing
AfterEvent_without_draw == "recv"

\* where the loop of main goes once an event is processed: back to its top
AfterEvent == "draw"

\* rx.recv() returns Ok(event)
MainRecv ==
    /\ pc = "recv"
    /\ chan # <<>>
    /\ chan' = recv(chan).rest
    /\ handled' = Append(handled, recv(chan).event)
    /\ LET event == recv(chan).event
       IN  IF event.kind = "Tick"
           THEN /\ \E flush_ok \in Outcomes(log_writer # None) :
                      /\ update_metrics(flush_ok)
                      /\ last' = Ran("tick", NoKey, TRUE, flush_ok)
                /\ pc' = AfterEvent
                /\ UNCHANGED exit_cause
           ELSE IF event.key.code = "q"
           THEN /\ pc' = "teardown"
                /\ exit_cause' = "quit"
                /\ last' = Ran("quit", event.key, TRUE, TRUE)
                /\ UNCHANGED <<collectorVars, appVars, envVars, ghostVars>>
           ELSE /\ \E create_ok \in Outcomes(Creates(event.key)) :
                   \E flush_ok \in Outcomes(Flushes(event.key) /\ create_ok) :
                      /\ handle_input(event.key, create_ok, flush_ok)
                      /\ last' = Ran("key", event.key, create_ok, flush_ok)
                /\ pc' = AfterEvent
                /\ UNCHANGED exit_cause
    /\ UNCHANGED <<producer, fuel, keys_left, terminal, sent, rendered>>

\* rx.recv() returns Err: the channel is empty and its Sender is gone
MainRecvClosed ==
    /\ pc = "recv"
    /\ chan = <<>>
    /\ producer = "dead"
    /\ pc' = "teardown"
    /\ exit_cause' = "closed"
    /\ last' = Ran("closed", NoKey, TRUE, TRUE)
    /\ UNCHANGED <<collectorVars, appVars, envVars, chan, producer, fuel, keys_left, ghostVars,
                   traceVars>>

\* the calls of the teardown, in order; each ends with `?`
TeardownCalls == <<"disable_raw_mode", "LeaveAlternateScreen", "show_cursor">>

\* the terminal after the first `done` calls of the teardown succeeded and
\* the next one, if any, returned Err
teardown(t, done) ==
    [raw_mode |-> IF done >= 1 THEN FALSE ELSE t.raw_mode,
     alternate_screen |-> IF done >= 2 THEN FALSE ELSE t.alternate_screen]

\* disable_raw_mode()?; execute!(.., LeaveAlternateScreen)?; show_cursor()?;
\* then main returns and app is dropped
MainTeardown ==
    /\ pc = "teardown"
    /\ pc' = "exited"
    /\ \E done \in 0..Len(TeardownCalls) : terminal' = teardown(terminal, done)
    /\ \E flush_ok \in Outcomes(log_writer # None) : DropApp(flush_ok)
    /\ last' = Ran("teardown", NoKey, TRUE, TRUE)
    /\ UNCHANGED <<collectorVars, metrics, sort_order, history, snap_path, snap_ttl, log_path,
                   clock, chan, producer, exit_cause, fuel, keys_left, ghostVars,
                   sent, handled, rendered>>

Init ==
    /\ AppStateNew /\ EnvInit /\ LoopInit /\ GhostInit
    /\ fuel = LoopTicks
    /\ keys_left = LoopInputs

Next ==
    \/ EventHandlerIter
    \/ EventHandlerPanic
    \/ MainDraw
    \/ MainRecv
    \/ MainRecvClosed
    \/ MainTeardown

Spec == Init /\ [][Next]_vars

(***************************************************************************)
(* The engine and the files it writes, with the clock moving on between    *)
(* events or standing still within a second.                               *)
(***************************************************************************)
\* chrono::Local::now() has moved to the next second
AdvanceClock ==
    /\ clock < MaxClock
    /\ clock' = clock + 1
    /\ UNCHANGED <<collectorVars, appVars, files, loopVars, fuel, keys_left, last, ghostVars>>

FilesInit ==
    /\ AppStateNew /\ EnvInit /\ LoopInit /\ GhostInit
    /\ fuel = FileTicks
    /\ keys_left = FileKeys

FilesNext == EngineTick \/ EngineKey \/ AdvanceClock

SpecFiles == FilesInit /\ [][FilesNext]_vars

(***************************************************************************)
(* The EventHandler thread over a run without end: its loop and the        *)
(* channel.  The thread reads nothing of the engine, so what main does     *)
(* with an event it takes is left to Spec; the budgets and the record of   *)
(* the traffic are not kept here.                                          *)
(***************************************************************************)
\* one iteration of the loop of EventHandler::run
SourceIter ==
    /\ producer = "running"
    /\ \E poll \in PollResults :
       \E read \in (IF poll = "ready"
                    THEN {KeyRead(k) : k \in TerminalKeys} \cup {NotKey, ReadErr}
                    ELSE {NotKey}) :
          LET out == run_iteration(poll, read)
          IN  /\ Len(chan) + Len(out) <= MaxChan
              /\ chan' = chan \o out
              /\ iter' = [outcome |-> Outcome(poll, read), key |-> read.key, sent |-> out]
    /\ UNCHANGED <<collectorVars, appVars, envVars, producer, pc, exit_cause, fuel, keys_left,
                   last, pushed, since_snap, log_rows, prev_toggle, toggle_pair, traceVars>>

\* rx.recv() takes the oldest event out of the channel
SourceRecv ==
    /\ chan # <<>>
    /\ chan' = recv(chan).rest
    /\ UNCHANGED <<collectorVars, appVars, envVars, producer, pc, exit_cause, fuel, keys_left,
                   last, ghostVars, traceVars>>

EventSourceInit ==
    /\ AppStateNew /\ EnvInit /\ LoopInit /\ GhostInit
    /\ fuel = 0
    /\ keys_left = 0

EventSourceNext == SourceIter \/ SourceRecv

\* the loop of the thread keeps running, and main keeps taking events
SpecEventSource ==
    /\ EventSourceInit
    /\ [][EventSourceNext]_vars
    /\ WF_vars(SourceIter)
    /\ WF_vars(SourceRecv)

(***************************************************************************)
(* Properties                                                              *)
(***************************************************************************)
\* what a full refresh at reading r computes
FreshProcesses(r) == SortByCpuDesc(MapProcessInfo(HostProcesses(r)))
FreshThermals(r) == HostThermals(r)
FreshDiskIo(r) == DiskIo(HostProcesses(r))

\* C1: with process_every fixed at a preset k, a collect() call recomputes
\* the process list, the thermal list and the disk-I/O total if and only if
\* the tick counter it meets is a multiple of k; every other call returns
\* the three cached values as the last recomputing call stored them, and
\* leaves the cache alone.
C1_GateAndCache ==
    [][host' = host + 1 =>
          LET k == collector.process_every
              t == collector.tick
              r == host + 1
          IN  /\ collector'.process_every = k
              /\ (t % k = 0) =>
                    /\ metrics'.processes = FreshProcesses(r)
                    /\ metrics'.thermals = FreshThermals(r)
                    /\ metrics'.disk_io = FreshDiskIo(r)
                    /\ collector'.last_processes = FreshProcesses(r)
                    /\ collector'.last_thermals = FreshThermals(r)
                    /\ collector'.last_disk_io = FreshDiskIo(r)
              /\ (t % k # 0) =>
                    /\ metrics'.processes = collector.last_processes
                    /\ metrics'.thermals = collector.last_thermals
                    /\ metrics'.disk_io = collector.last_disk_io
                    /\ metrics'.processes # FreshProcesses(r)
                    /\ metrics'.thermals # FreshThermals(r)
                    /\ metrics'.disk_io # FreshDiskIo(r)
                    /\ collector'.last_processes = collector.last_processes
                    /\ collector'.last_thermals = collector.last_thermals
                    /\ collector'.last_disk_io = collector.last_disk_io
                    /\ metrics'.processes = FreshProcesses(full_at)
                    /\ full_at >= 1
    ]_vars

\* C1 witness: at k = 20 the call that met tick 20 recomputed and the next
\* call, meeting tick 21, returned what that call stored.
C1_Witness ==
    /\ last.op = "collect"
    /\ collector.process_every = 20
    /\ collector.tick = 22
    /\ full_at = 21
    /\ metrics.processes = FreshProcesses(21)
    /\ metrics.cpu = 22

\* C2: after any sequence of collect() calls and scan-rate keys, the snapshot
\* collect() returned last carries the processes, thermals and disk I/O that
\* the most recent full refresh observed, and a full refresh has happened:
\* the empty cache of Collector::new is never what a snapshot carries.
C2_ExpensiveFieldsFromLastFull ==
    host >= 1 =>
       /\ full_at >= 1
       /\ full_at <= host
       /\ metrics.processes = FreshProcesses(full_at)
       /\ metrics.thermals = FreshThermals(full_at)
       /\ metrics.disk_io = FreshDiskIo(full_at)
       /\ metrics.processes # CollectorNew.last_processes
       /\ metrics.thermals # CollectorNew.last_thermals
       /\ metrics.disk_io # CollectorNew.last_disk_io
       /\ metrics.network = HostNetwork(host)

\* C2 witness: after scan-rate keys a collect() call returned a snapshot
\* whose expensive fields are five readings old.
C2_Witness ==
    /\ last.op = "collect"
    /\ collector.process_every = 20
    /\ host = 30
    /\ full_at = 25

LastN(s, n) == SubSeq(s, Len(s) - n + 1, Len(s))

\* the samples a history of capacity C holds after the pushes so far
Window == LastN(pushed, Min(Len(pushed), history.capacity))

\* C3: for every capacity C and after any pushes the four sequences have
\* the same length, at most C, and each holds the last min(n, C) values
\* pushed to it, oldest first.
C3_SlidingWindow ==
    /\ Len(history.net_rx) <= history.capacity
    /\ Len(history.net_tx) = Len(history.net_rx)
    /\ Len(history.disk_read) = Len(history.net_rx)
    /\ Len(history.disk_write) = Len(history.net_rx)
    /\ history.net_rx = [i \in 1..Len(Window) |-> Window[i].net.received_bytes]
    /\ history.net_tx = [i \in 1..Len(Window) |-> Window[i].net.transmitted_bytes]
    /\ history.disk_read = [i \in 1..Len(Window) |-> Window[i].disk.read_bytes]
    /\ history.disk_write = [i \in 1..Len(Window) |-> Window[i].disk.write_bytes]

\* C4: in every state of the engine process_every is one of 1, 2, 4, 8, 20,
\* so it is never 0 and tick % process_every is always defined.
C4_ProcessEveryIsPreset ==
    /\ collector.process_every \in {1, 2, 4, 8, 20}
    /\ collector.process_every # 0

\* C4 witness: keys have moved process_every to 20 and a Tick has evaluated
\* the gate with it.
C4_Witness ==
    /\ last.op = "tick"
    /\ last.pe0 = 20
    /\ collector.process_every = 20

PresetsBelow(cur) == {p \in {1, 2, 4, 8, 20} : p < cur}
PresetsAbove(cur) == {p \in {1, 2, 4, 8, 20} : p > cur}
Largest(S) == CHOOSE m \in S : \A x \in S : x <= m
Smallest(S) == CHOOSE m \in S : \A x \in S : m <= x
Position(p) == CHOOSE i \in 1..5 : <<1, 2, 4, 8, 20>>[i] = p
Distance(a, b) == IF a < b THEN b - a ELSE a - b

\* C5: '[' sets process_every to the largest preset strictly below the
\* current one and does nothing at 1; ']' sets it to the smallest preset
\* strictly above and does nothing at 20; each press moves one position in
\* 1, 2, 4, 8, 20 or none.
C5_AdjacentPreset ==
    [][last'.op = "key" =>
          LET cur == collector.process_every
              new == collector'.process_every
          IN  /\ last'.key.code = "[" =>
                    new = IF cur = 1 THEN 1 ELSE Largest(PresetsBelow(cur))
              /\ last'.key.code = "]" =>
                    new = IF cur = 20 THEN 20 ELSE Smallest(PresetsAbove(cur))
              /\ Distance(Position(new), Position(cur)) <= 1
    ]_vars

\* C5 witness: '[' has been pressed at 1 and left it at 1, after ']' at 20
\* was possible too.
C5_Witness ==
    /\ last.op = "key"
    /\ last.key.code = "["
    /\ last.pe0 = 1
    /\ collector.process_every = 1

\* C6 as claimed: from any preset, scan-rate-faster followed by
\* scan-rate-slower leaves process_every where it was before the pair.
C6_FasterSlowerRestores ==
    (last.op = "key" /\ Arm(last.key) = "scan_slower" /\ last.faster_from # 0)
        => collector.process_every = last.faster_from

\* C6 amended: from a preset other than 1 the pair restores process_every;
\* from 1, where faster does nothing, the pair ends at 2.
C6_FasterSlowerRestoresAbove1 ==
    (last.op = "key" /\ Arm(last.key) = "scan_slower" /\ last.faster_from # 0)
        => collector.process_every = IF last.faster_from = 1 THEN 2 ELSE last.faster_from

\* C6 witness: the pair was pressed at 20 and process_every is 20 again.
C6_Witness ==
    /\ last.op = "key"
    /\ Arm(last.key) = "scan_slower"
    /\ last.faster_from = 20
    /\ last.pe0 = 8
    /\ collector.process_every = 20

\* C7: after a successful snapshot the path stays displayed through the
\* next 11 Ticks and is cleared when the 12th is processed; key events in
\* between do not count.
C7_PathShownTwelveTicks ==
    /\ (since_snap >= 0 /\ since_snap < 12) => (snap_path # None /\ snap_path[1].prefix = "snap")
    /\ since_snap >= 12 => snap_path = None
    /\ since_snap < 0 => snap_path = None

\* C7 witness: the 12th Tick after a snapshot has just cleared the path, and
\* another key was pressed during the run.
C7_Witness ==
    /\ since_snap = 12
    /\ last.op = "tick"
    /\ snap_path = None
    /\ keys_left = 0

C9_OneEventPerIteration ==
    iter.outcome # "none" =>
       /\ Len(iter.sent) = 1
       /\ iter.outcome \in {"key", "not_key", "read_err"} => iter.sent[1].kind = "Input"
       /\ iter.outcome \in {"timeout", "poll_err"} => iter.sent[1].kind = "Tick"

\* C9 amended: every iteration sends at most one event: an Input carrying
\* the key when a key event was read, a Tick when the poll timed out or
\* failed, and nothing when the terminal event read was not a key event or
\* the read failed.
C9_AtMostOneEventPerIteration ==
    iter.outcome # "none" =>
       /\ Len(iter.sent) <= 1
       /\ iter.outcome = "key" => iter.sent = <<[kind |-> "Input", key |-> iter.key]>>
       /\ iter.outcome \in {"timeout", "poll_err"} => iter.sent = <<[kind |-> "Tick", key |-> NoKey]>>
       /\ iter.outcome \in {"not_key", "read_err"} => iter.sent = <<>>

\* C9 witness: an iteration read a terminal event that was not a key and
\* sent nothing, while an earlier event is still in the channel.
C9_Witness ==
    /\ iter.outcome = "not_key"
    /\ iter.sent = <<>>
    /\ Len(chan) = 1

\* C10: main leaves its loop only on the Quit key or when the channel is
\* closed; a render failure, a file I/O failure or a collection failure
\* does not end it.
C10_LoopEndsOnlyOnQuitOrClose ==
    pc \in {"teardown", "exited"} => exit_cause \in {"quit", "closed"}

\* after the Quit key the engine is left alone: no event is taken from the
\* channel, nothing is collected, and the only file write is the flush of
\* the log writer dropped when main returns
QuitStopsEngine ==
    [][exit_cause = "quit" =>
          /\ UNCHANGED <<collectorVars, metrics, sort_order, history, snap_path, snap_ttl,
                         log_path, handled, pushed>>
          /\ files' # files => (pc = "teardown" /\ log_writer # None)
    ]_vars

\* C11: once the Quit key is received no further event is processed, and
\* when main has returned the continuous log is closed and the terminal is
\* back in its normal mode: raw mode off, alternate screen left.
C11_QuitStopsAndRestores ==
    (pc = "exited" /\ exit_cause = "quit") =>
       /\ handled[Len(handled)] = InputEvent(Key("q", FALSE))
       /\ log_writer = None
       /\ ~terminal.raw_mode
       /\ ~terminal.alternate_screen

\* C12: a snapshot or a log start whose File::create fails leaves the
\* engine state and the files as they were (logging inactive and no path
\* recorded, for the log start); a Tick whose log flush fails leaves logging
\* active on the same file; after each of them the loop goes on to its next
\* draw.
C12_FailedFileActionsLeaveState ==
    [][handled' # handled =>
          /\ (last'.op = "key" /\ ~last'.create_ok) =>
                 /\ UNCHANGED <<collector, metrics, sort_order, history, snap_path, snap_ttl,
                                log_writer, log_path, files>>
                 /\ pc' = "draw"
                 /\ exit_cause' = "none"
          /\ (last'.op = "key" /\ ~last'.create_ok /\ last'.key = Key("l", TRUE)) =>
                 /\ log_writer' = None
                 /\ log_path' = None
          /\ (last'.op = "tick" /\ ~last'.flush_ok) =>
                 /\ log_writer # None
                 /\ log_writer' # None
                 /\ log_writer'[1].path = log_writer[1].path
                 /\ log_path' = Some(log_writer[1].path)
                 /\ pc' = "draw"
                 /\ exit_cause' = "none"
    ]_vars

\* C12 witness: a snapshot succeeded, the next one failed to create its
\* file, and the path of the first is still displayed with its countdown.
C12_Witness ==
    /\ last.op = "key"
    /\ last.key = Key("l", FALSE)
    /\ ~last.create_ok
    /\ snap_path # None
    /\ snap_ttl = 12
    /\ Len(handled) = 2
    /\ pc = "draw"

\* a Tick whose log flush failed has left logging active on the same file
FailedLogWriteReached ==
    /\ last.op = "tick"
    /\ ~last.flush_ok
    /\ log_writer # None
    /\ log_path = Some(log_writer[1].path)
    /\ pc = "draw"

\* C13: an iteration of the EventHandler loop whose poll or read fails
\* sends no event, neither Tick nor Input.
C13_FailureSendsNothing ==
    iter.outcome \in {"poll_err", "read_err"} => iter.sent = <<>>

\* an iteration whose read fails sends no event
ReadFailureSendsNothing ==
    iter.outcome = "read_err" => iter.sent = <<>>

\* C14: the events main has taken from the channel, followed by those still
\* in it, are the events the EventHandler thread sent, in the order it sent
\* them; main takes them one at a time and the operation that runs is the
\* one the event taken calls for; nothing is taken after the Quit key; and
\* a step of the EventHandler thread leaves the engine state and the files
\* alone.
C14_InOrderExactlyOnce ==
    /\ [](sent = handled \o chan)
    /\ [][handled' # handled =>
             LET event == sent[Len(handled) + 1]
             IN  /\ handled' = Append(handled, event)
                 /\ exit_cause = "none"
                 /\ event.kind = "Tick" => (last'.op = "tick" /\ host' = host + 1)
                 /\ (event.kind = "Input" /\ event.key.code # "q") =>
                        (last'.op = "key" /\ last'.key = event.key /\ host' = host)
                 /\ (event.kind = "Input" /\ event.key.code = "q") =>
                        (last'.op = "quit" /\ exit_cause' = "quit")
         ]_vars
    /\ [][(fuel' # fuel \/ keys_left' # keys_left) =>
             UNCHANGED <<collectorVars, appVars, files, handled, last>>
         ]_vars

\* C14 witness: a Tick and a key have been handled in the order sent while
\* two later events wait in the channel.
C14_Witness ==
    /\ handled = <<TickEvent, InputEvent(Key("m", FALSE))>>
    /\ chan = <<TickEvent, InputEvent(Key("q", FALSE))>>
    /\ sent = handled \o chan
    /\ host = 1
    /\ sort_order = Mem

\* C15: whenever main waits for or takes an event, the frame on screen was
\* drawn from the state as it is now, so every processed event has been
\* followed by a render before the next one is taken.
C15_RenderBeforeNextEvent ==
    pc = "recv" => rendered = Some(render)

\* C15 witness: two Ticks and a key were processed and the frame drawn
\* after the latest shows its snapshot and history.
C15_Witness ==
    /\ pc = "recv"
    /\ last.op = "draw"
    /\ Len(handled) = 3
    /\ host = 2
    /\ rendered # None
    /\ rendered[1].cpu = 2
    /\ Len(rendered[1].net_rx) = 2

\* what a key event did, told by its effects: a snapshot that created its
\* file displays the path and restarts the countdown; a toggle_log that
\* started or stopped logging changed the writer
SnapshotEffect == snap_path' # snap_path \/ snap_ttl' # snap_ttl \/ since_snap' # since_snap
ToggleEffect == log_writer' # log_writer \/ log_path' # log_path

\* C16: the one-shot snapshot runs only for 'l' or 'L' without Alt, the
\* log toggle only for 'l' with Alt; no key runs both, no key with Alt
\* held runs the snapshot, and no key without Alt toggles the log.
C16_SnapshotOnlyWithoutAlt ==
    [][keys_left' # keys_left =>
          /\ SnapshotEffect => (last'.key.code \in {"l", "L"} /\ ~last'.key.alt)
          /\ ToggleEffect => (last'.key.code = "l" /\ last'.key.alt)
          /\ ~(SnapshotEffect /\ ToggleEffect)
    ]_vars

\* what holds of the two arms: the snapshot runs only for 'l' without Alt
\* or for 'L', the toggle only for 'l' with Alt, and no key runs both
ToggleOnlyAltL ==
    [][keys_left' # keys_left =>
          /\ SnapshotEffect => (last'.key = Key("l", FALSE) \/ last'.key.code = "L")
          /\ ToggleEffect => (last'.key.code = "l" /\ last'.key.alt)
          /\ ~(SnapshotEffect /\ ToggleEffect)
    ]_vars

\* Alt+'L' has written a snapshot file and its path is displayed
AltUpperLSnapshotReached ==
    /\ last.op = "key"
    /\ last.key = Key("L", TRUE)
    /\ last.create_ok
    /\ snap_path = Some(SnapPath(clock))
    /\ snap_ttl = 12
    /\ SnapPath(clock) \in DOMAIN files
    /\ prev_toggle = None

\* C17 as claimed: '[' is the slower key and ']' the faster one: '[' never
\* decreases process_every and ']' never increases it.
C17_LeftSlowerRightFaster ==
    [][last'.op = "key" =>
          /\ last'.key.code = "[" => collector'.process_every >= collector.process_every
          /\ last'.key.code = "]" => collector'.process_every <= collector.process_every
    ]_vars

\* C17 amended: '[' is the faster key and ']' the slower one: '[' never
\* increases process_every and decreases it unless it is 1, ']' never
\* decreases it and increases it unless it is 20.
C17_LeftFasterRightSlower ==
    [][last'.op = "key" =>
          /\ last'.key.code = "[" =>
                 /\ collector'.process_every <= collector.process_every
                 /\ collector.process_every # 1 =>
                        collector'.process_every < collector.process_every
          /\ last'.key.code = "]" =>
                 /\ collector'.process_every >= collector.process_every
                 /\ collector.process_every # 20 =>
                        collector'.process_every > collector.process_every
    ]_vars

\* C17 witness: '[' was pressed at 4 and process_every is 2.
C17_Witness ==
    /\ last.op = "key"
    /\ last.key.code = "["
    /\ last.pe0 = 4
    /\ collector.process_every = 2

\* the newest element of a sequence
Newest(q) == q[Len(q)]

\* C18: each Tick makes one collect() call, puts its result in metrics and
\* pushes one sample; after every Tick the newest element of each history
\* sequence is the matching counter of the current snapshot, and after n
\* Ticks each sequence holds min(n, 120) elements.
C18_TickCollectsAndPushes ==
    /\ [](/\ Len(pushed) = host
          /\ Len(history.net_rx) = Min(host, 120)
          /\ Len(history.net_tx) = Min(host, 120)
          /\ Len(history.disk_read) = Min(host, 120)
          /\ Len(history.disk_write) = Min(host, 120)
          /\ host >= 1 =>
                /\ Newest(history.net_rx) = metrics.network.received_bytes
                /\ Newest(history.net_tx) = metrics.network.transmitted_bytes
                /\ Newest(history.disk_read) = metrics.disk_io.read_bytes
                /\ Newest(history.disk_write) = metrics.disk_io.write_bytes
                /\ metrics.network = HostNetwork(host)
                /\ metrics.cpu = host)
    /\ [][fuel' # fuel =>
             /\ host' = host + 1
             /\ collector'.tick = (collector.tick + 1) % TickModulus
             /\ metrics' # metrics
             /\ Len(pushed') = Len(pushed) + 1
             /\ pushed'[Len(pushed')] = [net |-> metrics'.network, disk |-> metrics'.disk_io]
         ]_vars

\* C18 witness: the 122nd Tick has been processed, the history holds 120
\* samples, the oldest is that of the 3rd Tick and the newest that of the
\* current snapshot.
C18_Witness ==
    /\ last.op = "tick"
    /\ host = 122
    /\ Len(history.net_rx) = 120
    /\ history.net_rx[1] = HostNetwork(3).received_bytes
    /\ history.net_rx[120] = metrics.network.received_bytes

\* the rows of the open log: those on disk followed by those the writer holds
LogContent == files[log_writer[1].path] \o log_writer[1].buf

C20_RateKeyChangesOnlyProcessEvery ==
    /\ [][host' = host =>
             /\ collector'.tick = collector.tick
             /\ collector'.last_processes = collector.last_processes
             /\ collector'.last_thermals = collector.last_thermals
             /\ collector'.last_disk_io = collector.last_disk_io
             /\ collector'.process_every \in {1, 2, 4, 8, 20}
             /\ UNCHANGED <<metrics, history, full_at, sort_order, snap_path, snap_ttl,
                            log_writer, log_path, files>>
         ]_vars
    /\ [][host' = host + 1 =>
             /\ (full_at' = host + 1) <=> (collector.tick % collector.process_every = 0)
             /\ (metrics'.processes = FreshProcesses(host + 1))
                    <=> (collector.tick % collector.process_every = 0)
             /\ collector'.process_every = collector.process_every
             /\ collector'.tick = (collector.tick + 1) % TickModulus
         ]_vars

\* C20 witness: after the first collect() the rate was moved from 4 to 1,
\* and the second call, meeting tick 1, made a full refresh.
C20_Witness ==
    /\ last.op = "collect"
    /\ last.faster_from = 2
    /\ last.pe0 = 1
    /\ host = 2
    /\ collector.tick = 2
    /\ full_at = 2

\* the keys handle_input or main give a meaning to
KnownCodes == {"c", "C", "m", "M", "l", "L", "[", "]", "q"}

\* C21: a sort key sets sort_order, c or C to Cpu and m or M to Mem, and
\* changes nothing else; a key outside c, C, m, M, l, L, '[', ']', q
\* changes nothing at all; neither writes a file nor calls collect().
C21_SortAndIgnoredKeysFrame ==
    [][keys_left' # keys_left =>
          /\ last'.key.code \in {"c", "C"} => sort_order' = Cpu
          /\ last'.key.code \in {"m", "M"} => sort_order' = Mem
          /\ last'.key.code \notin KnownCodes => sort_order' = sort_order
          /\ (last'.key.code \in {"c", "C", "m", "M"} \/ last'.key.code \notin KnownCodes) =>
                 UNCHANGED <<collector, host, full_at, metrics, history, snap_path, snap_ttl,
                             log_writer, log_path, files, pushed, log_rows>>
    ]_vars

\* C21 witness: 'M' was pressed while the process table showed Cpu order
\* and a log was open; the order is Mem and the log is still open.
C21_Witness ==
    /\ last.op = "key"
    /\ last.key = Key("M", FALSE)
    /\ sort_order = Mem
    /\ host >= 1
    /\ log_writer # None

\* C22: no key event changes the current snapshot, the history, the tick
\* counter or the cached processes, thermals and disk I/O; a snapshot or a
\* log toggle leaves the whole collector alone; so the Tick after it
\* collects the next reading and pushes its counters as if no key had come.
C22_KeysLeaveAggregationState ==
    /\ [][keys_left' # keys_left =>
             /\ UNCHANGED <<metrics, history, host, full_at, pushed>>
             /\ collector'.tick = collector.tick
             /\ collector'.last_processes = collector.last_processes
             /\ collector'.last_thermals = collector.last_thermals
             /\ collector'.last_disk_io = collector.last_disk_io
             /\ last'.key.code \in {"l", "L"} => collector' = collector
         ]_vars
    /\ [][fuel' # fuel =>
             /\ host' = host + 1
             /\ metrics'.network = HostNetwork(host + 1)
             /\ collector'.tick = (collector.tick + 1) % TickModulus
             /\ (collector.tick % collector.process_every # 0) =>
                    /\ metrics'.processes = metrics.processes
                    /\ metrics'.thermals = metrics.thermals
                    /\ metrics'.disk_io = metrics.disk_io
             /\ pushed' = Append(pushed, [net |-> metrics'.network, disk |-> metrics'.disk_io])
         ]_vars

\* C22 witness: a snapshot and a log start were made between the first and
\* the second Tick, and the second Tick returned the cached processes of
\* the first and pushed a second sample.
C22_Witness ==
    /\ last.op = "tick"
    /\ host = 2
    /\ full_at = 1
    /\ keys_left = 0
    /\ snap_path # None
    /\ snap_ttl = 11
    /\ log_writer # None
    /\ Len(log_rows) = Len(metrics.processes)
    /\ Len(history.net_rx) = 2

\* the calls from the previous expensive refresh to the one a collect()
\* step makes
Gap == host + 1 - full_at

\* the step is a collect() call that makes an expensive refresh, and not
\* the first one
Refreshes == host' = host + 1 /\ full_at' = host + 1 /\ full_at >= 1

\* C23 as claimed: with process_every constant at a preset N, consecutive
\* expensive refreshes are exactly N collect() calls apart for the whole
\* run, the wrap of the tick counter included.
C23_RefreshEveryN ==
    /\ [](host >= 1 => (full_at >= 1 /\ host - full_at < collector.process_every))
    /\ [][Refreshes => Gap = collector.process_every]_vars

\* C23 amended: consecutive expensive refreshes are N calls apart, except
\* that the refresh made when the counter has wrapped to 0 comes
\* ((2^w - 1) mod N) + 1 calls after the previous one: N again for 1, 2,
\* 4 and 8, which divide 2^w, and fewer than N for 20.
C23_RefreshEveryNUntilWrap ==
    /\ [](host >= 1 => (full_at >= 1 /\ host - full_at < collector.process_every))
    /\ [][Refreshes =>
             Gap = IF collector.tick = 0
                   THEN ((TickModulus - 1) % collector.process_every) + 1
                   ELSE collector.process_every
         ]_vars
    /\ [][(Refreshes /\ collector.process_every \in {1, 2, 4, 8}) =>
             Gap = collector.process_every
         ]_vars

\* C23 witness: at N = 20 the counter has wrapped and the call that met
\* tick 0 refreshed, fewer than 20 calls after the refresh at the last
\* multiple of 20 below 2^w.
C23_Witness ==
    /\ last.op = "collect"
    /\ collector.process_every = 20
    /\ host = TickModulus + 1
    /\ collector.tick = 1
    /\ full_at = host
    /\ metrics.processes = FreshProcesses(host)

\* the step is a snapshot that created its file
SnapshotSucceeds ==
    /\ keys_left' # keys_left
    /\ last'.key.code \in {"l", "L"}
    /\ ~(last'.key.code = "l" /\ last'.key.alt)
    /\ last'.create_ok

\* C24: every successful snapshot records the new path and sets the
\* countdown to 12 whatever was left of it, and the path is cleared by the
\* 12th Tick after the latest successful snapshot: while fewer Ticks have
\* passed the countdown is 12 less their number and the path is shown.
C24_SnapshotRestartsCountdown ==
    /\ [][SnapshotSucceeds =>
             /\ snap_ttl' = 12
             /\ snap_path' = Some(SnapPath(clock))
             /\ since_snap' = 0
         ]_vars
    /\ []((since_snap >= 0 /\ since_snap < 12) =>
              (snap_ttl = 12 - since_snap /\ snap_path # None))
    /\ [](since_snap >= 12 => (snap_ttl = 0 /\ snap_path = None))
    /\ [][(fuel' # fuel /\ since_snap = 11) => (snap_path # None /\ snap_path' = None)]_vars

\* C24 witness: a snapshot was taken while the path of an earlier one had
\* 11 Ticks left, and the countdown is 12 again.
C24_Witness ==
    /\ last.op = "key"
    /\ last.key = Key("l", FALSE)
    /\ last.create_ok
    /\ last.ttl0 = 11
    /\ snap_ttl = 12
    /\ snap_path # None
    /\ since_snap = 0

\* C25: the snapshot path is set exactly when snap_ttl is above 0, and
\* snap_ttl stays between 0 and 12.
C25_PathIffCountdown ==
    /\ (snap_path # None) <=> (snap_ttl > 0)
    /\ snap_ttl >= 0
    /\ snap_ttl <= 12

\* C25 witness: eleven Ticks after a snapshot the countdown is 1 and the
\* path is still set.
C25_Witness ==
    /\ last.op = "tick"
    /\ snap_ttl = 1
    /\ snap_path # None
    /\ since_snap = 11

\* C26: the log writer is set exactly when a log path is recorded, and the
\* path recorded is that of the file the writer is open on.
C26_WriterIffPath ==
    /\ (log_writer # None) <=> (log_path # None)
    /\ log_writer # None => log_path = Some(log_writer[1].path)

\* C26 witness: after a Tick a log start has failed to create its file,
\* and neither writer nor path is set.
C26_Witness ==
    /\ last.op = "key"
    /\ last.key = Key("l", TRUE)
    /\ ~last.create_ok
    /\ prev_toggle # None
    /\ ~prev_toggle[1].was_active
    /\ ~prev_toggle[1].active_after
    /\ log_writer = None
    /\ log_path = None
    /\ host >= 1

\* how many collect() calls ago the expensive fields shown were computed
Staleness == host - full_at

\* C27: however '[' and ']' are pressed between collect() calls, while the
\* tick counter has not wrapped every 40 consecutive calls hold an
\* expensive refresh: the processes, thermals and disk I/O of the snapshot
\* are at most 39 calls old.
C27_RefreshWithinFortyCalls ==
    (host >= 1 /\ host <= TickModulus) =>
       /\ full_at >= 1
       /\ Staleness <= 39
       /\ metrics.processes = FreshProcesses(full_at)

\* C27 witness: with the rate moved between 8 and 20 so that no gate
\* opened, the snapshot of the 40th call carries the processes of the 1st.
C27_Witness ==
    /\ last.op = "collect"
    /\ host = 40
    /\ full_at = 1
    /\ Staleness = 39
    /\ metrics.processes = FreshProcesses(1)

\* C28: while the EventHandler thread keeps running, however key presses
\* and other terminal events arrive, a Tick is sent again and again.
C28_TickSentAgainAndAgain ==
    []<>(iter.sent = <<TickEvent>>)

\* every iteration whose poll timed out or failed has sent a Tick
TimeoutSendsTick ==
    iter.outcome \in {"timeout", "poll_err"} => iter.sent = <<TickEvent>>

\* s is t or an initial part of t
IsPrefix(s, t) == Len(s) <= Len(t) /\ SubSeq(t, 1, Len(s)) = s

\* the file a key step creates, if it creates one
CreatedPath ==
    IF last'.key.code = "l" /\ last'.key.alt THEN LogPath(clock) ELSE SnapPath(clock)

\* the step is a key that created a file: a snapshot, or a log start
CreatesFile ==
    /\ keys_left' # keys_left
    /\ last'.key.code \in {"l", "L"}
    /\ last'.create_ok
    /\ (last'.key.code = "l" /\ last'.key.alt) => log_writer = None

\* C29: within a run no file written earlier is truncated or overwritten:
\* every file keeps what it held, later rows coming after it, and each
\* successful snapshot and log start creates a file whose name no earlier
\* action of the run used, presses within the same second included.
C29_FilesNeverOverwritten ==
    /\ [][\A path \in DOMAIN files :
             path \in DOMAIN files' /\ IsPrefix(files[path], files'[path])]_vars
    /\ [][CreatesFile => CreatedPath \notin DOMAIN files]_vars

\* a file is created under a name already used only when the clock shows
\* the second in which that name was first used
OverwriteOnlyInSameSecond ==
    [][(CreatesFile /\ CreatedPath \in DOMAIN files) => CreatedPath.sec = clock]_vars

\* snapshots and log starts made in different seconds have their own files
DistinctSecondsDistinctFiles ==
    [][\A path \in DOMAIN files :
          path.sec # clock => (path \in DOMAIN files' /\ IsPrefix(files[path], files'[path]))
    ]_vars

\* a log session wrote rows, was stopped, and a log start in the same
\* second has emptied its file
LogTruncatedReached ==
    /\ last.op = "key"
    /\ last.key = Key("l", TRUE)
    /\ last.create_ok
    /\ toggle_pair # None
    /\ toggle_pair[1].first.was_active
    /\ toggle_pair[1].first.flushed
    /\ Len(toggle_pair[1].first.rows) >= 1
    /\ toggle_pair[1].first.path = log_path
    /\ files[log_path[1]] = <<>>

====
